---- MODULE Spec2Model ----
(***************************************************************************)
(* A model of yieldorcall.py: a micro-benchmark comparing the cost of a    *)
(* function call, a method call and a generator resumption.                *)
(*                                                                         *)
(* Two specifications:                                                     *)
(*   Spec      the script run as __main__ (lines 124-138);                 *)
(*   SpecCalls the module imported and its callables invoked one test at a *)
(*             time by a driver, with arguments drawn from bounded sets.   *)
(*                                                                         *)
(* Floating point values are records [num, den]; the result of a floating  *)
(* point operation is the term [op, l, r] that computes it.  IEEE-754      *)
(* operations are functions of their operands, so two equal terms denote   *)
(* the same double; nothing is assumed about associativity or rounding.    *)
(* An optional value (None or a value) is a sequence of length 0 or 1.     *)
(***************************************************************************)
EXTENDS Integers, Sequences, FiniteSets, TLC

VARIABLES
    data,          \* the module-level Data instance (line 23)
    pi,            \* the module-level constant pi (line 34)
    stdout,        \* the lines printed so far, each [msg, n, best]
    config,        \* __main__: index of the configuration being measured (1..3)
    mstatus,       \* __main__: "import" | "running" | "done" | "raised"
    measurements,  \* the list of timings being collected / handed to evaluate
    ret,           \* optional: the value returned by the last evaluate call
    executed,      \* history: executions started of each runner
    rname,         \* the runner whose frame is (or was last) on the stack
    rstatus,       \* "none" | "running" | "returned" | "raised"
    n,             \* runner frame: the argument n
    i,             \* runner frame: loop iterations started
    x,             \* runner frame: optional local x
    y,             \* runner frame: optional local y
    obj,           \* optional: the live MyClass instance
    cr,            \* optional: the live generator instance
    made,          \* history: [obj, cr, primed]: constructions and primings
    calls,         \* history: wrapper invocations made by the runner frame
    last,          \* optional: the last wrapper/workload invocation [fn, p1, p2, z]
    exc,           \* optional: the exception that ended the last operation
    test           \* SpecCalls: the test case in progress

vars == <<data, pi, stdout, config, mstatus, measurements, ret, executed, rname,
          rstatus, n, i, x, y, obj, cr, made, calls, last, exc, test>>

---------------------------------------------------------------------------
(* Bounds of the model *)

\* the driver calls a runner with n in 0..MaxCalls
MaxCalls == 2
\* ncalls (line 125, 1000000 in the script) is scaled down to MaxNcalls
MaxNcalls == 1
\* rounds (line 126, 5 in the script) is scaled down to MaxRounds
MaxRounds == 2
\* elapsed times are drawn from 0..MaxTime
MaxTime == 1
\* random.random() draws k/FloatDen for k in 0..FloatDen-1
FloatDen == 2
\* the driver's integer arguments are drawn from 0..MaxArg
MaxArg == 1
\* the driver delivers at most MaxSends argument pairs to one generator
MaxSends == 2
\* the driver hands evaluate lists of at most MaxLen timings
MaxLen == 2

(* Program constants *)
RandLo == 0
RandHi == 100

---------------------------------------------------------------------------
(* Values *)

None == <<>>
Some(v) == <<v>>

Float(num, den) == [num |-> num, den |-> den]
FMul(a, b) == [op |-> "mul", l |-> a, r |-> b]
FAdd(a, b) == [op |-> "add", l |-> a, r |-> b]

\* random.random(): a float in [0, 1)
random == {Float(k, FloatDen) : k \in 0..(FloatDen - 1)}
\* random.randint(a, b): an integer in a..b, both ends included
randint(a, b) == a..b

\* class Data, __init__
Data == [param1 |-> <<"s", "t", "u", "f", "f">>, param2 |-> Float(5732, 100)]
\* pi = 3.1415927
PiValue == Float(31415927, 10000000)

Runners == {"function_runner", "coroutine_runner", "method_runner"}

ncalls == MaxNcalls
rounds == MaxRounds

---------------------------------------------------------------------------
(* Workloads and wrappers: the value each assigns to its local z *)

\* z = x * y
test_function1(a, b) == FMul(a, b)

\* z = x * y * pi
test_function2(a, b) == FMul(FMul(a, b), pi)

\* z = x * y * pi + len(data.param1) * data.param2
test_function3(a, b) ==
    FAdd(FMul(FMul(a, b), pi), FMul(Len(data.param1), data.param2))

\* z = p1 * p2 * pi + len(data.param1) * data.param2
frequently_called_function(p1, p2) ==
    FAdd(FMul(FMul(p1, p2), pi), FMul(Len(data.param1), data.param2))

\* MyClass(pi): __init__ stores its argument in self.pi
MyClass(c) == [pi |-> c]

\* mutant: the product is associated to the right
frequently_called_method_reassoc(self, p1, p2) ==
    FAdd(FMul(p1, FMul(p2, self.pi)), FMul(Len(data.param1), data.param2))

\* z = p1 * p2 * self.pi + len(data.param1) * data.param2
frequently_called_method(self, p1, p2) ==
    FAdd(FMul(FMul(p1, p2), self.pi), FMul(Len(data.param1), data.param2))

---------------------------------------------------------------------------
(* The generator object made by frequently_called_coroutine(pi)            *)
(* state: "uninitialized" (created, no code run), "suspended" (at the      *)
(* yield of line 72), "executing" (resumed, running the body), "finished"  *)
(* (an exception left the generator).  sends and bodies count the pairs    *)
(* received at line 72 and the executions of line 74.                      *)

\* calling the generator function binds its parameter and runs no code
frequently_called_coroutine(c) ==
    [state |-> "uninitialized", pi |-> c, locals |-> None, args |-> None,
     z |-> None, sends |-> 0, bodies |-> 0]

\* the first resumption: lines 67-69, then into the loop up to the yield
GenStart(g) ==
    LET length == Len(data.param1)
    IN  [g EXCEPT !.state = "suspended",
                  !.locals = Some([pi_local |-> g.pi, length |-> length,
                                   offset |-> FMul(length, data.param2)])]

\* line 72: the value sent is unpacked into p1, p2
GenReceive(g, v) ==
    [g EXCEPT !.state = "executing", !.args = Some(v), !.sends = g.sends + 1]

\* mutant: the body is not enclosed in a loop, so the generator returns after it
GenBodyOnce(g) ==
    LET loc == g.locals[1]
        a   == g.args[1]
    IN  [g EXCEPT !.state = "finished",
                  !.z = Some(FAdd(FMul(FMul(a[1], a[2]), loc.pi_local), loc.offset)),
                  !.bodies = g.bodies + 1]

\* line 74, then back round the loop to the yield of line 72
GenBody(g) ==
    LET loc == g.locals[1]
        a   == g.args[1]
    IN  [g EXCEPT !.state = "suspended",
                  !.z = Some(FAdd(FMul(FMul(a[1], a[2]), loc.pi_local), loc.offset)),
                  !.bodies = g.bodies + 1]

\* line 72 when the value sent is None (next on a suspended generator):
\* unpacking None raises TypeError, which ends the generator
GenReceiveNone(g) == [g EXCEPT !.state = "finished"]

---------------------------------------------------------------------------
(* evaluate and the builtins it uses *)

RECURSIVE minFrom(_, _, _)
minFrom(s, k, best) ==
    IF k > Len(s) THEN best
    ELSE minFrom(s, k + 1, IF s[k] < best THEN s[k] ELSE best)

RECURSIVE maxFrom(_, _, _)
maxFrom(s, k, best) ==
    IF k > Len(s) THEN best
    ELSE maxFrom(s, k + 1, IF s[k] > best THEN s[k] ELSE best)

\* mutant: the largest element is taken
max(s) == maxFrom(s, 2, s[1])

\* Python's min over a non-empty list: the first smallest element
min(s) == minFrom(s, 2, s[1])

\* "{}: best of {}: {}".format(msg, len(measurements), min(measurements))
format(msg, m) == [msg |-> msg, n |-> Len(m), best |-> min(m)]

\* range(k): the values the loop variable takes
rangeInclusive(k) == 0..k

range(k) == 0..(k - 1)

---------------------------------------------------------------------------
(* Runner frames *)

globals == <<data, pi>>
mainVars == <<config, mstatus>>
frameVars == <<rname, rstatus, n, i, x, y, calls, executed>>
objects == <<obj, cr, made>>
evalVars == <<stdout, measurements, ret>>

NoneMade == [obj |-> 0, cr |-> 0, primed |-> 0]

Invocation(fn, p1, p2, z) == [fn |-> fn, p1 |-> p1, p2 |-> p2, z |-> z]

\* a call of runner r with argument k pushes its frame
NewFrame(r, k) ==
    /\ rstatus # "running"
    /\ rname' = r
    /\ rstatus' = "running"
    /\ n' = k
    /\ i' = 0
    /\ x' = None
    /\ y' = None
    /\ calls' = 0
    /\ executed' = [executed EXCEPT ![r] = @ + 1]
    /\ last' = None
    /\ exc' = None

\* function_runner(n): no prologue
FunctionRunnerCall(k) ==
    /\ NewFrame("function_runner", k)
    /\ obj' = None /\ cr' = None /\ made' = NoneMade

\* coroutine_runner(n): cr = frequently_called_coroutine(pi); next(cr)
CoroutineRunnerCall(k) ==
    /\ NewFrame("coroutine_runner", k)
    /\ cr' = Some(GenStart(frequently_called_coroutine(pi)))
    /\ obj' = None
    /\ made' = [NoneMade EXCEPT !.cr = 1, !.primed = 1]

\* method_runner(n): obj = MyClass(pi)
MethodRunnerCall(k) ==
    /\ NewFrame("method_runner", k)
    /\ obj' = Some(MyClass(pi))
    /\ cr' = None
    /\ made' = [NoneMade EXCEPT !.obj = 1]

CallRunner(r, k) ==
    CASE r = "function_runner" -> FunctionRunnerCall(k)
      [] r = "coroutine_runner" -> CoroutineRunnerCall(k)
      [] r = "method_runner" -> MethodRunnerCall(k)

\* one iteration of the loop of function_runner
FunctionRunnerIter ==
    /\ rname = "function_runner" /\ rstatus = "running"
    /\ i \in range(n)
    /\ \E a \in random, b \in randint(RandLo, RandHi) :
        /\ x' = Some(a)
        /\ y' = Some(b)
        /\ last' = Some(Invocation("frequently_called_function", a, b,
                                   frequently_called_function(a, b)))
    /\ calls' = calls + 1
    /\ i' = i + 1
    /\ UNCHANGED <<globals, mainVars, evalVars, objects, rname, rstatus, n,
                   executed, exc, test>>

\* one iteration of the loop of method_runner
MethodRunnerIter ==
    /\ rname = "method_runner" /\ rstatus = "running"
    /\ i \in range(n)
    /\ \E a \in random, b \in randint(RandLo, RandHi) :
        /\ x' = Some(a)
        /\ y' = Some(b)
        /\ last' = Some(Invocation("frequently_called_method", a, b,
                                   frequently_called_method(obj[1], a, b)))
    /\ calls' = calls + 1
    /\ i' = i + 1
    /\ UNCHANGED <<globals, mainVars, evalVars, objects, rname, rstatus, n,
                   executed, exc, test>>

\* one iteration of the loop of coroutine_runner: x and y are drawn, then
\* frequently_called_coroutine.send is looked up on the generator FUNCTION,
\* which has no attribute send: AttributeError leaves the runner.
CoroutineRunnerIter ==
    /\ rname = "coroutine_runner" /\ rstatus = "running"
    /\ i \in range(n)
    /\ i' = i + 1
    /\ rstatus' = "raised"
    /\ exc' = Some("AttributeError")
    /\ x' = None /\ y' = None /\ cr' = None /\ obj' = None
    /\ UNCHANGED <<globals, mainVars, evalVars, made, rname, n, calls,
                   executed, last, test>>

\* the loop is exhausted: the runner returns None and its frame is popped
RunnerReturn ==
    /\ rstatus = "running"
    /\ i \notin range(n)
    /\ rstatus' = "returned"
    /\ x' = None /\ y' = None /\ cr' = None /\ obj' = None /\ last' = None
    /\ UNCHANGED <<globals, mainVars, evalVars, made, rname, n, i, calls,
                   executed, exc, test>>

---------------------------------------------------------------------------
(* evaluate(measurements, msg) *)

\* the arguments of print are evaluated first: min of an empty list raises
\* ValueError before anything is printed
evaluate(m, msg) ==
    IF m = <<>>
    THEN exc' = Some("ValueError") /\ ret' = None /\ UNCHANGED stdout
    ELSE /\ stdout' = Append(stdout, format(msg, m))
         /\ ret' = Some(min(m))
         /\ exc' = None

---------------------------------------------------------------------------
(* The script run as __main__ *)

\* mutant: the second and third messages are exchanged
LabelsExchanged == <<"function call", "method call", "coroutine.send">>

\* the msg of the three evaluate calls (lines 130, 134, 138)
Labels == <<"function call", "coroutine.send", "method call">>

\* the runner in the statement of the Timer whose repeat is called at lines
\* 130, 134 and 138: each time it is t_function, and t_coroutine and
\* t_method are built but never run
Timed == <<"function_runner", "function_runner", "function_runner">>

Init ==
    /\ data = Data
    /\ pi = PiValue
    /\ stdout = <<>>
    /\ config = 1
    /\ mstatus = "running"
    /\ measurements = <<>>
    /\ ret = None
    /\ executed = [r \in Runners |-> 0]
    /\ rname = "none"
    /\ rstatus = "none"
    /\ n = 0
    /\ i = 0
    /\ x = None
    /\ y = None
    /\ obj = None
    /\ cr = None
    /\ made = NoneMade
    /\ calls = 0
    /\ last = None
    /\ exc = None
    /\ test = "none"

\* Timer.repeat(rounds, number=1): one more timed execution of the statement
TimerStart ==
    /\ mstatus = "running"
    /\ rstatus = "none"
    /\ Len(measurements) < rounds
    /\ CallRunner(Timed[config], ncalls)
    /\ UNCHANGED <<globals, mainVars, evalVars, test>>

\* the statement returned: its elapsed time joins the list
TimerStop ==
    /\ mstatus = "running"
    /\ rstatus = "returned"
    /\ \E t \in 0..MaxTime : measurements' = Append(measurements, t)
    /\ rstatus' = "none"
    /\ UNCHANGED <<globals, mainVars, stdout, ret, objects, rname, n, i, x, y,
                   calls, executed, last, exc, test>>

\* repeat returned its list: evaluate(list, msg=...), then the next statement
MainEvaluate ==
    /\ mstatus = "running"
    /\ rstatus = "none"
    /\ Len(measurements) = rounds
    /\ evaluate(measurements, Labels[config])
    /\ measurements' = <<>>
    /\ config' = config + 1
    /\ mstatus' = IF config = Len(Labels) THEN "done" ELSE "running"
    /\ UNCHANGED <<globals, frameVars, objects, last, test>>

\* mutant: the exception is caught around the measurement, which is skipped
Caught ==
    /\ measurements' = <<>>
    /\ config' = config + 1
    /\ mstatus' = IF config = Len(Labels) THEN "done" ELSE "running"
    /\ rstatus' = "none"

\* nothing in __main__, Timer.repeat or the runner catches: the exception
\* ends the script
Uncaught ==
    /\ mstatus' = "raised"
    /\ rstatus' = "raised"
    /\ UNCHANGED <<config, measurements>>

\* an exception is raised inside the running timed statement (the
\* interpreter raises KeyboardInterrupt or MemoryError at any point)
Fault ==
    /\ mstatus = "running"
    /\ rstatus = "running"
    /\ exc' = Some("KeyboardInterrupt")
    /\ x' = None /\ y' = None /\ cr' = None /\ obj' = None /\ last' = None
    /\ Uncaught
    /\ UNCHANGED <<globals, stdout, ret, made, rname, n, i, calls, executed, test>>

Next ==
    \/ TimerStart
    \/ FunctionRunnerIter
    \/ RunnerReturn
    \/ TimerStop
    \/ MainEvaluate
    \/ Fault

Spec == Init /\ [][Next]_vars

---------------------------------------------------------------------------
(* The module imported: a driver invokes its callables, one test case at a *)
(* time.  A test case is one call of a runner, or a sequence of calls of   *)
(* the workloads and wrappers, or a sequence of calls of evaluate; Reset   *)
(* ends it, dropping the objects it made and the output it captured.       *)

InitImported ==
    /\ data = Data
    /\ pi = PiValue
    /\ stdout = <<>>
    /\ config = 0
    /\ mstatus = "import"
    /\ measurements = <<>>
    /\ ret = None
    /\ executed = [r \in Runners |-> 0]
    /\ rname = "none"
    /\ rstatus = "none"
    /\ n = 0
    /\ i = 0
    /\ x = None
    /\ y = None
    /\ obj = None
    /\ cr = None
    /\ made = NoneMade
    /\ calls = 0
    /\ last = None
    /\ exc = None
    /\ test = "none"

\* the argument pairs and timing lists the driver draws from
Args == random \X (0..MaxArg)
Lists == UNION {[1..k -> 0..MaxTime] : k \in 0..MaxLen}

InTest(t) == mstatus = "import" /\ test \in {"none", t} /\ test' = t

\* no generator is in the middle of a resumption
Idle == IF cr = None THEN TRUE ELSE cr[1].state # "executing"

DriverFunctionRunner ==
    /\ InTest("runner")
    /\ rstatus = "none"
    /\ \E k \in 0..MaxCalls : FunctionRunnerCall(k)
    /\ UNCHANGED <<globals, mainVars, evalVars>>

DriverCoroutineRunner ==
    /\ InTest("runner")
    /\ rstatus = "none"
    /\ \E k \in 0..MaxCalls : CoroutineRunnerCall(k)
    /\ UNCHANGED <<globals, mainVars, evalVars>>

DriverMethodRunner ==
    /\ InTest("runner")
    /\ rstatus = "none"
    /\ \E k \in 0..MaxCalls : MethodRunnerCall(k)
    /\ UNCHANGED <<globals, mainVars, evalVars>>

\* a call of a workload or of frequently_called_function: z is computed and
\* dropped with the frame
CallPlain(fn, p1, p2, z) ==
    /\ Idle
    /\ last' = Some(Invocation(fn, p1, p2, z))
    /\ exc' = None
    /\ UNCHANGED <<globals, mainVars, evalVars, frameVars, objects>>

DriverTestFunction1 ==
    /\ InTest("wrappers")
    /\ \E a \in Args : CallPlain("test_function1", a[1], a[2], test_function1(a[1], a[2]))

DriverTestFunction2 ==
    /\ InTest("wrappers")
    /\ \E a \in Args : CallPlain("test_function2", a[1], a[2], test_function2(a[1], a[2]))

DriverTestFunction3 ==
    /\ InTest("wrappers")
    /\ \E a \in Args : CallPlain("test_function3", a[1], a[2], test_function3(a[1], a[2]))

DriverFunction ==
    /\ InTest("wrappers")
    /\ \E a \in Args : CallPlain("frequently_called_function", a[1], a[2],
                                 frequently_called_function(a[1], a[2]))

\* obj = MyClass(pi)
DriverNewMyClass ==
    /\ InTest("wrappers")
    /\ Idle
    /\ obj = None
    /\ obj' = Some(MyClass(pi))
    /\ made' = [made EXCEPT !.obj = @ + 1]
    /\ UNCHANGED <<globals, mainVars, evalVars, frameVars, cr, last, exc>>

\* mutant: the result is stored in self.pi instead of the local z
CallMethodStoring(p1, p2) ==
    /\ obj # None
    /\ last' = Some(Invocation("frequently_called_method", p1, p2,
                               frequently_called_method(obj[1], p1, p2)))
    /\ obj' = Some([pi |-> frequently_called_method(obj[1], p1, p2)])

\* obj.frequently_called_method(p1, p2): z is a local, self is only read
CallMethod(p1, p2) ==
    /\ obj # None
    /\ last' = Some(Invocation("frequently_called_method", p1, p2,
                               frequently_called_method(obj[1], p1, p2)))
    /\ obj' = obj

DriverMethod ==
    /\ InTest("wrappers")
    /\ Idle
    /\ \E a \in Args : CallMethod(a[1], a[2])
    /\ exc' = None
    /\ UNCHANGED <<globals, mainVars, evalVars, frameVars, cr, made>>

\* cr = frequently_called_coroutine(pi)
DriverNewCoroutine ==
    /\ InTest("wrappers")
    /\ cr = None
    /\ cr' = Some(frequently_called_coroutine(pi))
    /\ made' = [made EXCEPT !.cr = @ + 1]
    /\ UNCHANGED <<globals, mainVars, evalVars, frameVars, obj, last, exc>>

\* next(cr): starts a fresh generator; sends None to a suspended one, which
\* raises TypeError at the unpacking of line 72; raises StopIteration on a
\* finished one
DriverNext ==
    /\ InTest("wrappers")
    /\ cr # None
    /\ \/ /\ cr[1].state = "uninitialized"
          /\ cr' = Some(GenStart(cr[1]))
          /\ made' = [made EXCEPT !.primed = @ + 1]
          /\ exc' = None
       \/ /\ cr[1].state = "suspended"
          /\ cr' = Some(GenReceiveNone(cr[1]))
          /\ exc' = Some("TypeError")
          /\ UNCHANGED made
       \/ /\ cr[1].state = "finished"
          /\ exc' = Some("StopIteration")
          /\ UNCHANGED <<cr, made>>
    /\ UNCHANGED <<globals, mainVars, evalVars, frameVars, obj, last>>

\* cr.send((p1, p2)): the pair is delivered to a suspended generator, which
\* starts executing; a fresh generator refuses a non-None value (TypeError)
\* and stays fresh; a finished one raises StopIteration
DriverSend ==
    /\ InTest("wrappers")
    /\ cr # None
    /\ \E a \in Args :
        \/ /\ cr[1].state = "suspended"
           /\ cr[1].sends < MaxSends
           /\ cr' = Some(GenReceive(cr[1], a))
           /\ exc' = None
        \/ /\ cr[1].state = "uninitialized"
           /\ exc' = Some("TypeError")
           /\ UNCHANGED cr
        \/ /\ cr[1].state = "finished"
           /\ exc' = Some("StopIteration")
           /\ UNCHANGED cr
    /\ UNCHANGED <<globals, mainVars, evalVars, frameVars, obj, made, last>>

\* the resumed generator runs its body and suspends again; send returns
GenRun ==
    /\ InTest("wrappers")
    /\ cr # None
    /\ cr[1].state = "executing"
    /\ cr' = Some(GenBody(cr[1]))
    /\ last' = Some(Invocation("frequently_called_coroutine", cr[1].args[1][1],
                               cr[1].args[1][2], cr'[1].z[1]))
    /\ UNCHANGED <<globals, mainVars, evalVars, frameVars, obj, made, exc>>

\* evaluate(m, msg) on a list the driver builds
DriverEvaluate ==
    /\ InTest("evaluate")
    /\ Len(stdout) <= MaxLen
    /\ \E m \in Lists :
        /\ measurements' = m
        /\ evaluate(m, "label")
    /\ UNCHANGED <<globals, mainVars, frameVars, objects, last>>

\* one more sample is appended to the list and evaluate is called again
DriverAddSample ==
    /\ InTest("evaluate")
    /\ Len(stdout) <= MaxLen
    /\ Len(measurements) <= MaxLen
    /\ \E t \in 0..MaxTime :
        /\ measurements' = Append(measurements, t)
        /\ evaluate(Append(measurements, t), "label")
    /\ UNCHANGED <<globals, mainVars, frameVars, objects, last>>

\* the test case ends: its objects are dropped and its captured output is
\* discarded; the module globals stay
Reset ==
    /\ mstatus = "import"
    /\ test # "none"
    /\ rstatus # "running"
    /\ Idle
    /\ test' = "none"
    /\ stdout' = <<>> /\ measurements' = <<>> /\ ret' = None
    /\ executed' = [r \in Runners |-> 0]
    /\ rname' = "none" /\ rstatus' = "none" /\ n' = 0 /\ i' = 0
    /\ x' = None /\ y' = None /\ calls' = 0
    /\ obj' = None /\ cr' = None /\ made' = NoneMade
    /\ last' = None /\ exc' = None
    /\ UNCHANGED <<globals, mainVars>>

NextCalls ==
    \/ DriverFunctionRunner
    \/ DriverCoroutineRunner
    \/ DriverMethodRunner
    \/ FunctionRunnerIter
    \/ CoroutineRunnerIter
    \/ MethodRunnerIter
    \/ RunnerReturn
    \/ DriverTestFunction1
    \/ DriverTestFunction2
    \/ DriverTestFunction3
    \/ DriverFunction
    \/ DriverNewMyClass
    \/ DriverMethod
    \/ DriverNewCoroutine
    \/ DriverNext
    \/ DriverSend
    \/ GenRun
    \/ DriverEvaluate
    \/ DriverAddSample
    \/ Reset

SpecCalls == InitImported /\ [][NextCalls]_vars

---------------------------------------------------------------------------
(* Properties *)

Elems(s) == {s[k] : k \in 1..Len(s)}
IsMinimumOf(v, s) == v \in Elems(s) /\ \A k \in 1..Len(s) : v <= s[k]
LastLine == stdout[Len(stdout)]

\* C1: by the end of a run every runner (function_runner, coroutine_runner,
\* method_runner) has been executed `rounds` times, each report line coming
\* from timing its own runner.
C1_EveryRunnerTimed ==
    mstatus = "done" => \A r \in Runners : executed[r] = rounds

\* C2: coroutine_runner(n) constructs the generator once, primes it once,
\* resumes it exactly n times (one pair and one execution of the body per
\* resumption) and returns without raising.
C2_CoroutineRunnerResumes ==
    (rname = "coroutine_runner" /\ rstatus \in {"returned", "raised"}) =>
        /\ rstatus = "returned"
        /\ exc = None
        /\ made.cr = 1 /\ made.primed = 1
        /\ calls = n

\* C3: for a non-empty list, evaluate returns and reports the minimum: an
\* element of the list that is less than or equal to every element.
C3_EvaluateReturnsMinimum ==
    (test = "evaluate" /\ measurements # <<>>) =>
        /\ ret # None
        /\ IsMinimumOf(ret[1], measurements)
        /\ LastLine.best = ret[1]

C3_Witness ==
    /\ test = "evaluate"
    /\ Len(measurements) >= 2
    /\ measurements[1] > measurements[2]
    /\ ret = Some(measurements[2])

\* C4: a complete run prints exactly three lines, labelled 'function call',
\* 'coroutine.send', 'method call' in this order, each with N = rounds, and
\* each line is printed with the minimum of the `rounds` measurements just
\* taken.
C4_ThreeReportLines ==
    /\ [](mstatus = "done" =>
            /\ Len(stdout) = 3
            /\ stdout[1].msg = "function call"
            /\ stdout[2].msg = "coroutine.send"
            /\ stdout[3].msg = "method call"
            /\ \A k \in 1..3 : stdout[k].n = rounds)
    /\ [][stdout' # stdout =>
            /\ stdout' = Append(stdout, stdout'[Len(stdout')])
            /\ Len(measurements) = rounds
            /\ stdout'[Len(stdout')].n = Len(measurements)
            /\ IsMinimumOf(stdout'[Len(stdout')].best, measurements)]_vars

C4_Witness ==
    /\ mstatus = "done"
    /\ Len(stdout) = 3
    /\ stdout[1].best < stdout[2].best
    /\ stdout[3].best < stdout[2].best

\* C5: the generator starts uninitialized; its first resumption takes it to
\* the receive point without executing the body; every delivered pair takes
\* it from suspended to executing and then back to suspended with the body
\* executed once; no delivery of a pair and no execution of the body
\* finishes it.
C5_GeneratorStateMachine ==
    /\ [](cr # None =>
            /\ cr[1].state \in {"uninitialized", "suspended", "executing", "finished"}
            /\ (cr[1].state = "uninitialized" => cr[1].sends = 0 /\ cr[1].bodies = 0)
            /\ (cr[1].state = "executing" => cr[1].bodies + 1 = cr[1].sends)
            /\ (cr[1].state = "suspended" => cr[1].bodies = cr[1].sends))
    /\ [][(cr = None /\ cr' # None /\ test' = "wrappers") =>
            cr'[1].state = "uninitialized"]_vars
    /\ [][(cr # None /\ cr' # None) =>
            /\ (cr[1].state = "uninitialized" /\ cr'[1].state # "uninitialized") =>
                   (cr'[1].state = "suspended" /\ cr'[1].bodies = 0)
            /\ (cr'[1].sends # cr[1].sends) =>
                   /\ cr[1].state = "suspended"
                   /\ cr'[1].state = "executing"
                   /\ cr'[1].sends = cr[1].sends + 1
                   /\ cr'[1].bodies = cr[1].bodies
            /\ (cr[1].state = "executing") =>
                   /\ cr'[1].state = "suspended"
                   /\ cr'[1].bodies = cr[1].bodies + 1
                   /\ cr'[1].sends = cr[1].sends]_vars

C5_Witness ==
    /\ cr # None
    /\ cr[1].state = "suspended"
    /\ cr[1].sends = MaxSends
    /\ cr[1].bodies = MaxSends

\* C6: function_runner(n) and method_runner(n) terminate after exactly n
\* iterations, each invoking the wrapper once with a fresh (x, y), y an
\* integer in 0..100; method_runner uses the one MyClass instance built
\* before the loop.
C6_RunnersIterateExactlyN ==
    (rname \in {"function_runner", "method_runner"}) =>
        /\ rstatus \in {"running", "returned"}
        /\ calls = i
        /\ i <= n
        /\ (rstatus = "returned" => i = n)
        /\ (rstatus = "running" /\ i < n) =>
               ENABLED (FunctionRunnerIter \/ MethodRunnerIter)
        /\ (rstatus = "running" /\ i = n) => ENABLED RunnerReturn
        /\ (rstatus = "running" /\ i > 0) =>
               /\ x # None /\ y # None /\ last # None
               /\ y[1] \in 0..100
               /\ last[1].p1 = x[1] /\ last[1].p2 = y[1]
               /\ last[1].fn = IF rname = "function_runner"
                               THEN "frequently_called_function"
                               ELSE "frequently_called_method"
        /\ (rname = "method_runner") =>
               /\ made.obj = 1
               /\ (rstatus = "running" => obj = Some([pi |-> pi]))

C6_Witness ==
    /\ rname = "method_runner"
    /\ rstatus = "returned"
    /\ n = MaxCalls
    /\ calls = MaxCalls

\* C7: data.param1, data.param2 and pi keep their initial values whatever is
\* invoked, and a MyClass instance's pi is not changed by a method call.
C7_SharedStateReadOnly ==
    /\ [](/\ data.param1 = <<"s", "t", "u", "f", "f">>
          /\ data.param2 = Float(5732, 100)
          /\ pi = Float(31415927, 10000000))
    /\ [][data' = data /\ pi' = pi]_vars
    /\ [][(obj # None /\ obj' # None) => obj' = obj]_vars

C7_Witness ==
    /\ obj # None
    /\ last # None
    /\ last[1].fn = "frequently_called_method"

\* C8: for every pair (p1, p2), one call of frequently_called_function, one
\* call of frequently_called_method and one resumption of the generator compute
\* the same z = p1 * p2 * pi + len(data.param1) * data.param2, at every
\* resumption of a sequence.
C8_WrappersEquivalent ==
    /\ (last # None /\ last[1].fn \in {"frequently_called_function",
                                       "frequently_called_method",
                                       "frequently_called_coroutine"}) =>
           last[1].z = FAdd(FMul(FMul(last[1].p1, last[1].p2), pi),
                            FMul(Len(data.param1), data.param2))
    /\ (cr # None /\ cr[1].bodies > 0 /\ cr[1].state = "suspended") =>
           cr[1].z = Some(FAdd(FMul(FMul(cr[1].args[1][1], cr[1].args[1][2]), pi),
                               FMul(Len(data.param1), data.param2)))

C8_Witness ==
    /\ cr # None
    /\ cr[1].bodies = 2
    /\ cr[1].state = "suspended"
    /\ last # None
    /\ last[1].fn = "frequently_called_coroutine"

\* C9: once a runner has raised during a measurement, the run has ended: no
\* line is printed for that configuration, nothing later is measured or
\* printed, and the lines of the earlier configurations stay.
C9_FaultEndsRun ==
    /\ [](exc # None =>
            /\ mstatus = "raised"
            /\ rstatus = "raised"
            /\ Len(stdout) = config - 1)
    /\ [][exc # None =>
            UNCHANGED <<stdout, executed, config, measurements, mstatus>>]_vars

C9_Witness ==
    /\ exc # None
    /\ mstatus = "raised"
    /\ config = 2
    /\ Len(stdout) = 1
    /\ Len(measurements) = 1

\* C10: when a sample is appended to a non-empty list and the list is
\* evaluated again, the value returned is less than or equal to the one
\* returned before and the reported count grows by one.
C10_MinimumMonotone ==
    [][(/\ test = "evaluate"
        /\ measurements # <<>>
        /\ ret # None
        /\ Len(measurements') = Len(measurements) + 1
        /\ SubSeq(measurements', 1, Len(measurements)) = measurements) =>
            /\ ret' # None
            /\ ret'[1] <= ret[1]
            /\ Len(stdout') = Len(stdout) + 1
            /\ stdout'[Len(stdout')].n = LastLine.n + 1]_vars

C10_Witness ==
    /\ test = "evaluate"
    /\ Len(stdout) = 2
    /\ stdout[1].n = 1
    /\ stdout[2].n = 2
    /\ stdout[2].best < stdout[1].best
    /\ Len(measurements) = 2

====
